---- MODULE Spec2Model ----
(***************************************************************************)
(* A state-machine model of ThingworxDebugSession (src/src/thingworxDebug.ts):*)
(* the debug adapter that translates frontend (DAP) requests into Thingworx  *)
(* debugger service calls over HTTP and re-emits the frames pushed over the  *)
(* debugger websocket as frontend events.                                    *)
(*                                                                           *)
(* One action per request handler.  A handler that awaits invokeService is   *)
(* two actions: <name>Request runs the handler up to its await and issues    *)
(* the HTTP call, <name>Resume runs the rest of it when the HTTP callback    *)
(* fires.  The websocket's events (open, error, message, close) are actions  *)
(* of the environment that run whichever handler is installed at that time.  *)
(*                                                                           *)
(* The variable step records the latest handler run: what it was given (the  *)
(* request's arguments, the inbound frame, the HTTP reply), the messages it  *)
(* sent to the frontend, the HTTP calls it issued, what it did to a socket,  *)
(* and whether it ended in an uncaught exception or rejection; so a property *)
(* of every run of a handler is an invariant.                                *)
(***************************************************************************)
EXTENDS Integers, Sequences, FiniteSets, TLC

\* ------------------------------------------------------------------ bounds

\* Requests the frontend issues in one behaviour, of any kinds.
MaxReq == 2

\* Requests the frontend issues in one behaviour when all of them are to the
\* handlers that read or write _scopeThreadMapping (IndexCommands).
MaxIndexReq == 3

\* Frames the target pushes over the websockets in one behaviour.
MaxPush == 3

\* Rows in the result of one service call.
MaxRows == 2

\* Entries in the filterOptions of one setExceptionBreakpoints request.
MaxFilters == 3

\* Characters in a source path, where paths are drawn for the path transform.
MaxPath == 2

\* The seq numbers of the requests.
ReqIds == 1 .. (IF MaxReq > MaxIndexReq THEN MaxReq ELSE MaxIndexReq)

IndexCommands == {"stackTrace", "scopes", "evaluate"}

\* Thread ids of the target.
Threads == {1, 2}

\* Stack frame ids the frontend may name; FramesOf(t) are the ids the target
\* hands out for thread t (a frame id belongs to one thread).
FrameIds == {1, 2, 3}

FramesOf(t) == IF t = 1 THEN {1, 2} ELSE {3}

\* ------------------------------------------------------------- state

VARIABLES
    platform,     \* process.platform of the host the adapter runs on
    nextId,       \* seq number of the next frontend request
    indexOnly,    \* whether every request so far was one of IndexCommands
    task,         \* task[r]: where request r's handler is (idle, await, done)
    unawaited,    \* the requests whose HTTP call, which nothing awaits, is in flight
    resp,         \* resp[r]: the success flags of the responses sent for r, in order
    ws,           \* ws[r]: the WebSocket created by attach request r
    _websocket,   \* this._websocket: <<>> (undefined) or <<r>>
    conn,         \* this.domain, this.port, this.useSSL, this.appKey: <<>> or <<record>>
    _scopeThreadMapping,  \* frame id -> thread id, a partial function
    _cancellationTokens,  \* request id -> true, as the set of its keys
    npush,        \* frames pushed so far
    framesReturned,  \* the <<frame id, thread id>> pairs of the stackTrace responses sent
    step          \* what the latest handler run did

vars == <<platform, nextId, indexOnly, task, unawaited, resp, ws, _websocket, conn, _scopeThreadMapping,
          _cancellationTokens, npush, framesReturned, step>>

\* ----------------------------------------------------------- values

\* task[r].pc is "idle" before request r is issued, "await" while its handler is
\* suspended in `await this.invokeService(...)` (cmd and arg are then what the
\* rest of the handler reads), and "done" once the handler has returned.
Idle == [pc |-> "idle", cmd |-> "", arg |-> <<>>]

Done == [pc |-> "done", cmd |-> "", arg |-> <<>>]

NoSock ==
    [readyState |-> "none", onmessage |-> "none", onerror |-> "none", url |-> <<>>,
     appKey |-> ""]

\* DebugProtocol.Response as sendResponse sends it.
SuccessResponse(r, cmd, body) ==
    [type |-> "response", request_seq |-> r, command |-> cmd, success |-> TRUE,
     body |-> body]

\* DebugProtocol.ErrorResponse as sendErrorResponse(response, {id, format, showUser}) sends it.
ErrorResponse(r, cmd, id, format) ==
    [type |-> "response", request_seq |-> r, command |-> cmd, success |-> FALSE,
     body |-> [error |-> [id |-> id, format |-> format, showUser |-> TRUE]]]

Event(name, body) == [type |-> "event", event |-> name, body |-> body]

\* The success flags of the responses to request r among msgs, in order.
RECURSIVE ResponsesTo(_, _)
ResponsesTo(r, msgs) ==
    IF msgs = <<>> THEN <<>>
    ELSE LET m == Head(msgs)
         IN  (IF m.type = "response" /\ m.request_seq = r THEN <<m.success>> ELSE <<>>)
             \o ResponsesTo(r, Tail(msgs))

Sent(msgs) == [r \in ReqIds |-> resp[r] \o ResponsesTo(r, msgs)]

\* The record of one handler run.
Step(op, r, input, msgs, calls, sock, threw) ==
    [op |-> op, req |-> r, input |-> input, sent |-> msgs, issued |-> calls, sock |-> sock,
     threw |-> threw]

\* ------------------------------------------------------ invokeService

\* The decimal digits of an integer n >= 0.
RECURSIVE Digits(_)
Digits(n) == IF n < 10 THEN <<n>> ELSE Digits(n \div 10) \o <<n % 10>>

\* A JavaScript number x >= 0 is modelled by its value in tenths (8015 is 80150).
\* x.toFixed(): x rounded to an integer, as a string of digits.
ToFixed(tenths) == Digits((tenths + 5) \div 10)

\* x | 0: x truncated to an integer (x is within the 32-bit range).
ToInt32(tenths) == tenths \div 10

Number(n) == n * 10

\* The URL invokeService posts to; an unset field reads "undefined".
ServiceUrl(name) ==
    IF conn = <<>>
    THEN [scheme |-> "http", domain |-> "undefined", port |-> <<>>, service |-> name]
    ELSE [scheme |-> IF conn[1].useSSL THEN "https" ELSE "http",
          domain |-> conn[1].domain, port |-> conn[1].port, service |-> name]

\* The request.post of invokeService(name, args).
Post(name, args) == [service |-> name, args |-> args, url |-> ServiceUrl(name)]

\* What the HTTP layer hands to the callback of request.post.
TransportError == [err |-> TRUE, statusCode |-> 0, parses |-> FALSE, value |-> <<>>]

HttpStatus(code) == [err |-> FALSE, statusCode |-> code, parses |-> FALSE, value |-> <<>>]

BadBody == [err |-> FALSE, statusCode |-> 200, parses |-> FALSE, value |-> <<>>]

OkBody(v) == [err |-> FALSE, statusCode |-> 200, parses |-> TRUE, value |-> v]

Failures == {TransportError, HttpStatus(500), BadBody}

Replies(values) == Failures \cup {OkBody(v) : v \in values}

\* The callback of request.post: the promise rejects or resolves with the parsed body.
invokeService(reply) ==
    IF reply.err THEN [resolved |-> FALSE, value |-> <<>>]
    ELSE IF reply.statusCode # 200 THEN [resolved |-> FALSE, value |-> <<>>]
    ELSE IF ~reply.parses THEN [resolved |-> FALSE, value |-> <<>>]
    ELSE [resolved |-> TRUE, value |-> reply.value]

\* --------------------------------------------------- service results

\* A parsed result: an object with or without a rows array.  A row is null, or
\* an object whose fields have the types the handler expects (typed) or not.
NullRow == [null |-> TRUE, id |-> 0, typed |-> FALSE]

Row(id, typed) == [null |-> FALSE, id |-> id, typed |-> typed]

RECURSIVE SeqsUpTo(_, _)
SeqsUpTo(S, n) ==
    IF n = 0 THEN {<<>>}
    ELSE LET shorter == SeqsUpTo(S, n - 1)
         IN  shorter \cup {Append(s, x) : s \in shorter, x \in S}

NoRows == [hasRows |-> FALSE, rows |-> <<>>]

Rows(s) == [hasRows |-> TRUE, rows |-> s]

\* The results a service may give whose rows carry ids among ids.
Results(ids) ==
    {NoRows} \cup
    {Rows(s) : s \in SeqsUpTo({NullRow} \cup {Row(i, t) : i \in ids, t \in BOOLEAN}, MaxRows)}

\* The replies to a call whose result the handler ignores.
PlainReplies == Replies({NoRows})

\* The replies to a call whose result rows the handler reads.
RowReplies == Replies(Results({1}))

\* The replies to getStackTraceInThread for thread 1 and for thread 2: the rows
\* carry frame ids of that thread.
StackReplies1 == Replies(Results(FramesOf(1)))

StackReplies2 == Replies(Results(FramesOf(2)))

StackReplies(threadId) == IF threadId = 1 THEN StackReplies1 ELSE StackReplies2

\* -------------------------------------------------- handler plumbing

\* The frontend issues a request of command cmd, with seq number nextId.
Issue(cmd) ==
    /\ nextId <= (IF indexOnly /\ cmd \in IndexCommands THEN MaxIndexReq ELSE MaxReq)
    /\ nextId' = nextId + 1
    /\ indexOnly' = (indexOnly /\ cmd \in IndexCommands)
    /\ UNCHANGED platform

\* A handler that runs to its end without awaiting: it sends msgs.
Sync(op, cmd, input, msgs) ==
    /\ Issue(cmd)
    /\ task' = [task EXCEPT ![nextId] = Done]
    /\ resp' = Sent(msgs)
    /\ step' = Step(op, nextId, input, msgs, <<>>, <<>>, FALSE)
    /\ UNCHANGED <<unawaited, ws, _websocket, conn, _scopeThreadMapping, npush, framesReturned>>

\* A handler that runs up to `await this.invokeService(service, args)`.
Await(op, cmd, input, arg, service, args) ==
    /\ Issue(cmd)
    /\ task' = [task EXCEPT ![nextId] = [pc |-> "await", cmd |-> cmd, arg |-> arg]]
    /\ step' = Step(op, nextId, input, <<>>, <<Post(service, args)>>, <<>>, FALSE)
    /\ UNCHANGED <<unawaited, resp, ws, _websocket, conn, _scopeThreadMapping,
                   _cancellationTokens, npush, framesReturned>>

\* A faulty variant of Awaiting: a callback waits for the calls made before it.
AwaitingMutSerial(r, cmd) ==
    /\ task[r].pc = "await" /\ task[r].cmd = cmd
    /\ \A q \in 1 .. (r - 1) : task[q].pc # "await"

\* The handler of request r is suspended at its await; the HTTP callback may
\* resume it whatever else is pending.
Awaiting(r, cmd) == task[r].pc = "await" /\ task[r].cmd = cmd

\* A faulty variant of Finish: a request named by a cancel gets no response.
FinishMutCancelled(op, r, reply, msgs) ==
    /\ task' = [task EXCEPT ![r] = Done]
    /\ resp' = Sent(IF r \in _cancellationTokens THEN <<>> ELSE msgs)
    /\ step' = Step(op, r, reply, IF r \in _cancellationTokens THEN <<>> ELSE msgs,
                    <<>>, <<>>, FALSE)
    /\ UNCHANGED <<platform, nextId, indexOnly, unawaited, ws, _websocket, conn, _cancellationTokens, npush>>

\* The rest of a handler after its await, once the HTTP layer has handed reply
\* to the callback: it sends msgs and returns.
Finish(op, r, reply, msgs) ==
    /\ task' = [task EXCEPT ![r] = Done]
    /\ resp' = Sent(msgs)
    /\ step' = Step(op, r, reply, msgs, <<>>, <<>>, FALSE)
    /\ UNCHANGED <<platform, nextId, indexOnly, unawaited, ws, _websocket, conn, _cancellationTokens, npush>>

Resume(op, r, reply, msgs) ==
    /\ Finish(op, r, reply, msgs)
    /\ UNCHANGED <<_scopeThreadMapping, framesReturned>>

\* ------------------------------------------------------- initialize

Capabilities ==
    [supportsConfigurationDoneRequest |-> TRUE,
     supportsEvaluateForHovers |-> TRUE,
     supportsStepBack |-> FALSE,
     supportsDataBreakpoints |-> FALSE,
     supportsCompletionsRequest |-> TRUE,
     completionTriggerCharacters |-> <<".", "[">>,
     supportsCancelRequest |-> FALSE,
     supportsBreakpointLocationsRequest |-> TRUE,
     supportsStepInTargetsRequest |-> FALSE,
     supportsExceptionFilterOptions |-> TRUE,
     exceptionBreakpointFilters |-> <<"exceptions", "caughtExceptions", "uncaughtExceptions">>,
     supportsExceptionInfoRequest |-> TRUE,
     supportsSetVariable |-> TRUE,
     supportsSetExpression |-> TRUE,
     supportsDisassembleRequest |-> FALSE,
     supportsSteppingGranularity |-> FALSE,
     supportsInstructionBreakpoints |-> FALSE]

InitializedEvent == Event("initialized", <<>>)

\* A faulty variant of initializeOutput: the event before the response.
initializeOutputMutEventFirst(r) ==
    <<InitializedEvent, SuccessResponse(r, "initialize", Capabilities)>>

\* What initializeRequest sends for request r, in order.
initializeOutput(r) ==
    <<SuccessResponse(r, "initialize", Capabilities), InitializedEvent>>

initializeRequest ==
    /\ Sync("initializeRequest", "initialize", <<>>, initializeOutput(nextId))
    /\ UNCHANGED _cancellationTokens

\* super.configurationDoneRequest sends the response; nothing waits on _configurationDone.
configurationDoneRequest ==
    /\ Sync("configurationDoneRequest", "configurationDone", <<>>,
            <<SuccessResponse(nextId, "configurationDone", <<>>)>>)
    /\ UNCHANGED _cancellationTokens

completionsRequest ==
    /\ Sync("completionsRequest", "completions", <<>>,
            <<SuccessResponse(nextId, "completions", [targets |-> <<>>])>>)
    /\ UNCHANGED _cancellationTokens

\* cancelRequest(args): requestId 0 stands for an absent (falsy) requestId.
cancelRequest(requestId) ==
    /\ Sync("cancelRequest", "cancel", [requestId |-> requestId], <<>>)
    /\ _cancellationTokens' =
          IF requestId # 0 THEN _cancellationTokens \cup {requestId}
          ELSE _cancellationTokens

\* ------------------------------------------------ rejected requests

\* A faulty variant of RejectOutput: a success response.
RejectOutputMutSuccess(r, cmd, format) == <<SuccessResponse(r, cmd, <<>>)>>

\* What a rejecting handler sends for request r.
RejectOutput(r, cmd, format) == <<ErrorResponse(r, cmd, 0, format)>>

Reject(op, cmd, format) ==
    /\ Sync(op, cmd, <<>>, RejectOutput(nextId, cmd, format))
    /\ UNCHANGED _cancellationTokens

launchRequest == Reject("launchRequest", "launch", "Launch request not supported")

reverseContinueRequest ==
    Reject("reverseContinueRequest", "reverseContinue", "Unsupported operation")

stepBackRequest == Reject("stepBackRequest", "stepBack", "Unsupported operation")

stepInTargetsRequest ==
    Reject("stepInTargetsRequest", "stepInTargets", "Unsupported operation")

setExpressionRequest ==
    Reject("setExpressionRequest", "setExpression", "Unsupported operation")

dataBreakpointInfoRequest ==
    Reject("dataBreakpointInfoRequest", "dataBreakpointInfo", "Unsupported operation")

setDataBreakpointsRequest ==
    Reject("setDataBreakpointsRequest", "setDataBreakpoints", "Unsupported operation")

disassembleRequest == Reject("disassembleRequest", "disassemble", "Unsupported operation")

setInstructionBreakpointsRequest ==
    Reject("setInstructionBreakpointsRequest", "setInstructionBreakpoints",
           "Unsupported operation")

customRequest == Reject("customRequest", "custom", "Unsupported operation")

RejectedCommands ==
    {"launch", "reverseContinue", "stepBack", "stepInTargets", "setExpression",
     "dataBreakpointInfo", "setDataBreakpoints", "disassemble",
     "setInstructionBreakpoints", "custom"}

\* ------------------------------------------------ attach and the socket

\* The attach arguments the frontend sends.
AttachArguments ==
    {[thingworxDomain |-> "localhost", thingworxPort |-> Number(8015), useSSL |-> FALSE,
      thingworxAppKey |-> "X"]}

\* The URL of the debugger websocket.
SocketUrl(args) ==
    [protocol |-> IF args.useSSL THEN "wss" ELSE "ws", domain |-> args.thingworxDomain,
     port |-> ToInt32(args.thingworxPort)]

\* websocket.close(): a socket that is connecting or open starts closing.
Close(sockets, s) ==
    [sockets EXCEPT ![s].readyState = IF @ \in {"connecting", "open"} THEN "closing" ELSE @]

\* attachRequest stores the connection details, creates the socket and installs
\* its three handlers; the response is sent by those handlers.
attachRequest(args) ==
    /\ Issue("attach")
    /\ conn' = <<[domain |-> args.thingworxDomain, port |-> ToFixed(args.thingworxPort),
                  useSSL |-> args.useSSL, appKey |-> args.thingworxAppKey]>>
    /\ ws' = [ws EXCEPT ![nextId] =
                 [readyState |-> "connecting", onmessage |-> "handshake",
                  onerror |-> "attach", url |-> SocketUrl(args),
                  appKey |-> args.thingworxAppKey]]
    /\ _websocket' = <<nextId>>
    /\ task' = [task EXCEPT ![nextId] = Done]
    /\ step' = Step("attachRequest", nextId, args, <<>>, <<>>,
                    <<[do |-> "new", socket |-> nextId]>>, FALSE)
    /\ UNCHANGED <<unawaited, resp, _scopeThreadMapping, _cancellationTokens, npush, framesReturned>>

\* websocket.onopen: authenticate using the app key.
onopen(s) ==
    /\ ws[s].readyState = "connecting"
    /\ ws' = [ws EXCEPT ![s].readyState = "open"]
    /\ step' = Step("onopen", s, <<>>, <<>>, <<>>,
                    <<[do |-> "send", socket |-> s, data |-> [appKey |-> ws[s].appKey]]>>,
                    FALSE)
    /\ UNCHANGED <<platform, nextId, indexOnly, task, unawaited, resp, _websocket, conn, _scopeThreadMapping,
                   _cancellationTokens, npush, framesReturned>>

\* The messages of the socket errors the transport reports.
ErrorMessages == {"connect ECONNREFUSED"}

\* A faulty variant of onerrorOutput: the generic message instead of the error's.
onerrorOutputMutGeneric(s, message) ==
    IF ws[s].onerror = "attach"
    THEN <<ErrorResponse(s, "attach", 0, "Unable to process request")>>
    ELSE <<>>

\* What the installed error handler sends: the attach handler answers the attach
\* request with the error's message, the handler installed after the handshake
\* does nothing.
onerrorOutput(s, message) ==
    IF ws[s].onerror = "attach" THEN <<ErrorResponse(s, "attach", 0, message)>> ELSE <<>>

\* The socket reports an error (it could not connect, or it failed later) and is
\* closed by the transport; websocket.onerror runs.
onerror(s, message) ==
    /\ ws[s].readyState \in {"connecting", "open", "closing"}
    /\ ws' = [ws EXCEPT ![s].readyState = "closed"]
    /\ resp' = Sent(onerrorOutput(s, message))
    /\ step' = Step("onerror", s, [message |-> message, readyState |-> ws[s].readyState],
                    onerrorOutput(s, message), <<>>, <<>>, FALSE)
    /\ UNCHANGED <<platform, nextId, indexOnly, task, unawaited, _websocket, conn, _scopeThreadMapping,
                   _cancellationTokens, npush, framesReturned>>

\* The socket finishes closing (the target closed it, or answered a close); no
\* handler is installed for that.
onclose(s) ==
    /\ ws[s].readyState \in {"open", "closing"}
    /\ ws' = [ws EXCEPT ![s].readyState = "closed"]
    /\ step' = Step("onclose", s, <<>>, <<>>, <<>>, <<>>, FALSE)
    /\ UNCHANGED <<platform, nextId, indexOnly, task, unawaited, resp, _websocket, conn, _scopeThreadMapping,
                   _cancellationTokens, npush, framesReturned>>

\* Inbound frames.  A frame's data parses as JSON to an object, or parses to
\* null, or does not parse; a field the object lacks reads as <<>> (undefined),
\* and authenticated reads as FALSE when absent.
Frame(json, authenticated, name, threadID, reason, exception, body, level) ==
    [json |-> json, authenticated |-> authenticated, name |-> name, threadID |-> threadID,
     reason |-> reason, exception |-> exception, body |-> body, level |-> level]

Unparsable == Frame("unparsable", FALSE, "", <<>>, <<>>, <<>>, <<>>, <<>>)

NullFrame == Frame("null", FALSE, "", <<>>, <<>>, <<>>, <<>>, <<>>)

Authenticated(b) == Frame("object", b, "", <<>>, <<>>, <<>>, <<>>, <<>>)

Suspended(t, reason, exception) ==
    Frame("object", FALSE, "suspended", <<t>>, <<reason>>, <<exception>>, <<>>, <<>>)

Resumed(t) == Frame("object", FALSE, "resumed", <<t>>, <<>>, <<>>, <<>>, <<>>)

Log(body, level) == Frame("object", FALSE, "log", <<>>, <<>>, <<>>, body, <<level>>)

Named(name) == Frame("object", FALSE, name, <<>>, <<>>, <<>>, <<>>, <<>>)

Frames ==
    {Unparsable, NullFrame, Authenticated(TRUE), Authenticated(FALSE),
     Suspended(1, "breakpoint", FALSE), Suspended(2, "exception", TRUE),
     Resumed(1), Resumed(2), Log(<<"m">>, "info"), Named("future")}

\* JSON.parse(e.data) followed by a read of a field of the result throws unless
\* the data parses to an object.
ParsesToObject(frame) == frame.json = "object"

CanDeliver(s) == ws[s].readyState \in {"open", "closing"} /\ npush < MaxPush

\* A faulty variant of attachOnMessageOutput: no response to an authenticated frame.
attachOnMessageOutputMutNoResponse(s, frame) ==
    IF ParsesToObject(frame) THEN <<>>
    ELSE <<ErrorResponse(s, "attach", 0, "Unable to process request")>>

\* What the handshake handler of attach request s sends for a frame: the
\* response when the frame says authenticated, nothing when it parses and does
\* not, the error response of the outer catch when reading it throws.
attachOnMessageOutput(s, frame) ==
    IF ParsesToObject(frame)
    THEN IF frame.authenticated THEN <<SuccessResponse(s, "attach", <<>>)>> ELSE <<>>
    ELSE <<ErrorResponse(s, "attach", 0, "Unable to process request")>>

\* The handshake handler installed by attachRequest on socket s (the closure
\* holds the attach response of request s).
attachOnMessage(s, frame) ==
    /\ CanDeliver(s)
    /\ ws[s].onmessage = "handshake"
    /\ npush' = npush + 1
    /\ resp' = Sent(attachOnMessageOutput(s, frame))
    /\ IF ParsesToObject(frame)
       THEN \* the handlers are swapped whatever authenticated says
            /\ ws' = [ws EXCEPT ![s].onmessage = "dispatch", ![s].onerror = "noop"]
            /\ UNCHANGED _websocket
            /\ IF frame.authenticated
               THEN \* connectDebugger is invoked and not awaited
                    /\ unawaited' = unawaited \cup {s}
                    /\ step' = Step("attachOnMessage", s, frame,
                                    attachOnMessageOutput(s, frame),
                                    <<Post("connectDebugger", <<>>)>>, <<>>, FALSE)
               ELSE /\ UNCHANGED unawaited
                    /\ step' = Step("attachOnMessage", s, frame,
                                    attachOnMessageOutput(s, frame), <<>>, <<>>, FALSE)
       ELSE \* the outer catch
            /\ ws' = Close(ws, s)
            /\ _websocket' = <<>>
            /\ step' = Step("attachOnMessage", s, frame, attachOnMessageOutput(s, frame),
                            <<>>, <<[do |-> "close", socket |-> s]>>, FALSE)
            /\ UNCHANGED unawaited
    /\ UNCHANGED <<platform, nextId, indexOnly, task, conn, _scopeThreadMapping, _cancellationTokens, framesReturned>>

\* new StoppedEvent(reason, threadId, exceptionText)
StoppedEvent(reason, threadId, exceptionText) ==
    Event("stopped", [reason |-> reason, threadId |-> threadId,
                      exceptionText |-> exceptionText])

\* new ContinuedEvent(threadId, allThreadsContinued)
ContinuedEvent(threadId, allThreadsContinued) ==
    Event("continued", [threadId |-> threadId, allThreadsContinued |-> allThreadsContinued])

\* new LogOutputEvent(msg, level)
LogOutputEvent(msg, level) == Event("output", [output |-> msg, level |-> level])

\* A faulty variant of Dispatch: resumed reported as all threads continued.
DispatchMutResumedAll(frame) ==
    IF frame.name = "suspended"
    THEN <<StoppedEvent(frame.reason, frame.threadID, frame.exception)>>
    ELSE IF frame.name = "resumed" THEN <<ContinuedEvent(frame.threadID, TRUE)>>
    ELSE IF frame.name = "log" THEN <<LogOutputEvent(frame.body \o <<"\n">>, frame.level)>>
    ELSE <<>>

\* The events the switch on message.name sends for a frame that parsed to an object.
Dispatch(frame) ==
    IF frame.name = "suspended"
    THEN <<StoppedEvent(frame.reason, frame.threadID, frame.exception)>>
    ELSE IF frame.name = "resumed" THEN <<ContinuedEvent(frame.threadID, FALSE)>>
    ELSE IF frame.name = "log" THEN <<LogOutputEvent(frame.body \o <<"\n">>, frame.level)>>
    ELSE <<>>

\* The steady-state handler.  A frame that does not parse leaves message
\* undefined, and reading message.name then throws out of the handler.
_didRecieveMessageWithEvent(s, frame) ==
    /\ CanDeliver(s)
    /\ ws[s].onmessage = "dispatch"
    /\ npush' = npush + 1
    /\ step' = IF ParsesToObject(frame)
               THEN Step("_didRecieveMessageWithEvent", s, frame, Dispatch(frame), <<>>, <<>>,
                         FALSE)
               ELSE Step("_didRecieveMessageWithEvent", s, frame, <<>>, <<>>, <<>>, TRUE)
    /\ UNCHANGED <<platform, nextId, indexOnly, task, unawaited, resp, ws, _websocket, conn, _scopeThreadMapping,
                   _cancellationTokens, framesReturned>>

\* disconnectRequest invokes disconnectDebugger without awaiting it and closes the
\* current socket; neither throws, so the catch never runs and nothing is sent.
disconnectRequest ==
    /\ Issue("disconnect")
    /\ task' = [task EXCEPT ![nextId] = Done]
    /\ unawaited' = unawaited \cup {nextId}
    /\ ws' = IF _websocket = <<>> THEN ws ELSE Close(ws, _websocket[1])
    /\ step' = Step("disconnectRequest", nextId, <<>>, <<>>, <<Post("disconnectDebugger", <<>>)>>,
                    IF _websocket = <<>> THEN <<>>
                    ELSE <<[do |-> "close", socket |-> _websocket[1]]>>, FALSE)
    /\ UNCHANGED <<resp, _websocket, conn, _scopeThreadMapping, _cancellationTokens, npush,
                   framesReturned>>

\* The HTTP callback of a call nothing awaits (connectDebugger, disconnectDebugger):
\* a rejection is an unhandled promise rejection, a result is dropped.
Settled(r) ==
    /\ r \in unawaited
    /\ unawaited' = unawaited \ {r}
    /\ \E reply \in PlainReplies :
          step' = Step("Settled", r, reply, <<>>, <<>>, <<>>, ~invokeService(reply).resolved)
    /\ UNCHANGED <<platform, nextId, indexOnly, task, resp, ws, _websocket, conn, _scopeThreadMapping,
                   _cancellationTokens, npush, framesReturned>>

\* ------------------------------------------- requests mapped to a service

\* The catch block of a mapped handler.
CatchOutput(r, cmd, format) == <<ErrorResponse(r, cmd, 0, format)>>

\* The rows a result may hold, and the row arrays.
RowValues == {NullRow} \cup {Row(i, t) : i \in FrameIds, t \in BOOLEAN}

RowSeqs == SeqsUpTo(RowValues, MaxRows)

\* Whether the body of a loop over the rows throws at a row: a body that reads a
\* field of the row throws at a null row, one that calls a method of a field's
\* value throws also at a row whose field has another type, one that only
\* pushes the row never throws.
ReadsField(row) == row.null

ReadsTypedField(row) == row.null \/ ~row.typed

Never(row) == FALSE

Throws(reads, row) ==
    IF reads = "field" THEN ReadsField(row)
    ELSE IF reads = "typed" THEN ReadsTypedField(row)
    ELSE Never(row)

\* The longest prefix of rows a for-of loop handles before its body throws.
Handled(rows, reads) ==
    LET throwing == {i \in 1 .. Len(rows) : Throws(reads, rows[i])}
    IN  IF throwing = {} THEN rows
        ELSE SubSeq(rows, 1, (CHOOSE i \in throwing : \A j \in throwing : i <= j) - 1)

\* The loop `for (const row of result.rows)` runs to its end.
Completes(out, reads) ==
    out.resolved /\ out.value.hasRows /\ Handled(out.value.rows, reads) = out.value.rows

\* The array a loop builds by pushing f[row] for each row.
Map(rows, f) == [i \in 1 .. Len(rows) |-> f[rows[i]]]

\* A handler of the shape: try { result = await invokeService; build the body
\* from result.rows; sendResponse } catch { sendErrorResponse }.  body[rows] is
\* the response body built from the rows.
ResumeRows(op, r, cmd, reads, body, format) ==
    /\ Awaiting(r, cmd)
    /\ \E reply \in RowReplies :
          LET out == invokeService(reply)
          IN  Resume(op, r, reply,
                     IF Completes(out, reads)
                     THEN <<SuccessResponse(r, cmd, body[out.value.rows])>>
                     ELSE CatchOutput(r, cmd, format))

\* A handler that ignores the result: try { await invokeService; sendResponse }
\* catch { sendErrorResponse }.
ResumePlain(op, r, cmd, format) ==
    /\ Awaiting(r, cmd)
    /\ \E reply \in PlainReplies :
          Resume(op, r, reply,
                 IF invokeService(reply).resolved THEN <<SuccessResponse(r, cmd, <<>>)>>
                 ELSE CatchOutput(r, cmd, format))

\* ---- setBreakpoints, breakpointLocations

\* The values of process.platform told apart: Windows and any other host.
Platforms == {"win32", "linux"}

\* Paths as sequences of characters.
Paths == {<<>>, <<"c", ":", "\\", "a", "\\", "b">>, <<"/", "a">>}

\* The characters the path transform tells apart: a letter in either case and
\* the two separators; and every path of up to MaxPath of them.
PathChars == {"c", "C", "\\", "/"}

PathInputs == SeqsUpTo(PathChars, MaxPath)

toUpperCase(c) == IF c = "c" THEN "C" ELSE IF c = "a" THEN "A" ELSE IF c = "b" THEN "B" ELSE c

\* A faulty variant of NormalizeWin32: the two separators exchanged.
NormalizeWin32MutSwap(path) ==
    <<toUpperCase(path[1])>> \o
    [i \in 1 .. (Len(path) - 1) |->
        IF path[i + 1] = "\\" THEN "/" ELSE IF path[i + 1] = "/" THEN "\\" ELSE path[i + 1]]

\* path[0].toUpperCase() + path.substring(1).replace(/\\/g, '/'), for a non-empty path
NormalizeWin32(path) ==
    <<toUpperCase(path[1])>> \o
    [i \in 1 .. (Len(path) - 1) |-> IF path[i + 1] = "\\" THEN "/" ELSE path[i + 1]]

\* The path sent to the service on a host of the given platform.
NormalizePath(host, path) == IF host = "win32" THEN NormalizeWin32(path) ELSE path

\* On win32, path[0].toUpperCase() throws for an empty path: the catch answers
\* before any call is made.
setBreakPointsRequest(path) ==
    IF platform = "win32" /\ path = <<>>
    THEN /\ Sync("setBreakPointsRequest", "setBreakpoints", [path |-> path],
                 CatchOutput(nextId, "setBreakpoints", "Unable to process request"))
         /\ UNCHANGED _cancellationTokens
    ELSE /\ Await("setBreakPointsRequest", "setBreakpoints", [path |-> path],
                  [source |-> path],
                  "setBreakpointsForFile",
                  [path |-> NormalizePath(platform, path), breakpoints |-> <<>>])

\* A row of setBreakpointsForFile: the fields the handler copies.  The span has
\* four different numbers, so that a field copied from the wrong place shows.
BreakpointRow(sequenceID, verified) ==
    [null |-> FALSE, sequenceID |-> sequenceID, verified |-> verified,
     line |-> 5, column |-> 1, endLine |-> 6, endColumn |-> 9, message |-> "m"]

SequenceIDs == {1, 2}

BreakpointRowValues ==
    {NullRow} \cup {BreakpointRow(i, v) : i \in SequenceIDs, v \in BOOLEAN}

\* The replies to setBreakpointsForFile.
BreakpointReplies ==
    Replies({NoRows} \cup {Rows(s) : s \in SeqsUpTo(BreakpointRowValues, MaxRows)})

\* A faulty variant of BreakpointOf: the span's lines exchanged.
BreakpointOfMutLines(source, row) ==
    [verified |-> row.verified, column |-> row.column, endColumn |-> row.endColumn,
     endLine |-> row.line, id |-> row.sequenceID, line |-> row.endLine,
     message |-> row.message, source |-> source]

\* The descriptor pushed for a row.
BreakpointOf(source, row) ==
    [verified |-> row.verified, column |-> row.column, endColumn |-> row.endColumn,
     endLine |-> row.endLine, id |-> row.sequenceID, line |-> row.line,
     message |-> row.message, source |-> source]

\* The loop over result.rows: the descriptors of the rows, in the rows' order.
Breakpoints(source, rows) == [i \in 1 .. Len(rows) |-> BreakpointOf(source, rows[i])]

setBreakPointsResume(r) ==
    /\ Awaiting(r, "setBreakpoints")
    /\ \E reply \in BreakpointReplies :
          LET out == invokeService(reply)
          IN  Resume("setBreakPointsResume", r, reply,
                     IF Completes(out, "field")
                     THEN <<SuccessResponse(r, "setBreakpoints",
                                [breakpoints |-> Breakpoints(task[r].arg.source, out.value.rows)])>>
                     ELSE CatchOutput(r, "setBreakpoints", "Unable to process request"))

\* Without a path the handler answers at once with no locations.
breakpointLocationsRequest(path) ==
    IF path = <<>>
    THEN /\ Sync("breakpointLocationsRequest", "breakpointLocations", [path |-> path],
                 <<SuccessResponse(nextId, "breakpointLocations", [breakpoints |-> <<>>])>>)
         /\ UNCHANGED _cancellationTokens
    ELSE /\ Await("breakpointLocationsRequest", "breakpointLocations", [path |-> path], <<>>,
                  "getBreakpointLocationsInFile", [path |-> NormalizePath(platform, path)])

LocationOf(row) == [line |-> row.id]

breakpointLocationsResume(r) ==
    ResumeRows("breakpointLocationsResume", r, "breakpointLocations", "field",
               [rows \in RowSeqs |->
                   [breakpoints |-> Map(rows, [row \in RowValues |-> LocationOf(row)])]],
               "Unable to process request")

\* ---- setExceptionBreakpoints

FilterIds == {"exceptions", "caughtExceptions", "uncaughtExceptions", "other"}

\* args.filterOptions: absent (<<>> stands for both absent and empty, which the
\* loop treats alike) or a list of filter ids.
FilterOptions == SeqsUpTo(FilterIds, MaxFilters)

\* Whether id is the filterId of one of the filterOptions.
Has(filterOptions, id) == \E i \in 1 .. Len(filterOptions) : filterOptions[i] = id

\* A faulty variant of SetFlags: each option resets the flags of the others.
RECURSIVE SetFlagsMutLastWins(_, _)
SetFlagsMutLastWins(filterOptions, flags) ==
    IF filterOptions = <<>> THEN flags
    ELSE SetFlagsMutLastWins(
             Tail(filterOptions),
             [exceptions |-> Head(filterOptions) = "exceptions",
              caughtExceptions |-> Head(filterOptions) = "caughtExceptions",
              uncaughtExceptions |-> Head(filterOptions) = "uncaughtExceptions"])

\* The loop over args.filterOptions: the switch on filterOption.filterId sets
\* the local of that name and leaves the others as they are.
RECURSIVE SetFlags(_, _)
SetFlags(filterOptions, flags) ==
    IF filterOptions = <<>> THEN flags
    ELSE SetFlags(
             Tail(filterOptions),
             IF Head(filterOptions) = "exceptions" THEN [flags EXCEPT !.exceptions = TRUE]
             ELSE IF Head(filterOptions) = "caughtExceptions"
                  THEN [flags EXCEPT !.caughtExceptions = TRUE]
             ELSE IF Head(filterOptions) = "uncaughtExceptions"
                  THEN [flags EXCEPT !.uncaughtExceptions = TRUE]
             ELSE flags)

\* The arguments of setBreakOnExceptions: the three locals, all false before the loop.
BreakOnExceptions(filterOptions) ==
    LET flags == SetFlags(filterOptions,
                          [exceptions |-> FALSE, caughtExceptions |-> FALSE,
                           uncaughtExceptions |-> FALSE])
    IN  [breaks |-> flags.exceptions,
         caughtExceptions |-> flags.caughtExceptions,
         uncaughtExceptions |-> flags.uncaughtExceptions]

setExceptionBreakPointsRequest(filterOptions) ==
    /\ Await("setExceptionBreakPointsRequest", "setExceptionBreakpoints",
             [filterOptions |-> filterOptions], <<>>,
             "setBreakOnExceptions", BreakOnExceptions(filterOptions))

setExceptionBreakPointsResume(r) ==
    ResumePlain("setExceptionBreakPointsResume", r, "setExceptionBreakpoints",
                "Unable to process request")

\* ---- exceptionInfo, threads

exceptionInfoRequest(threadId) ==
    /\ Await("exceptionInfoRequest", "exceptionInfo", [threadId |-> threadId], <<>>,
             "getExceptionDetails",
             [threadID |-> <<threadId>>])

\* The details are passed through as the response body.
exceptionInfoResume(r) ==
    /\ Awaiting(r, "exceptionInfo")
    /\ \E reply \in PlainReplies :
          Resume("exceptionInfoResume", r, reply,
                 IF invokeService(reply).resolved
                 THEN <<SuccessResponse(r, "exceptionInfo", invokeService(reply).value)>>
                 ELSE CatchOutput(r, "exceptionInfo",
                                  "Unable to process exception info request"))

threadsRequest ==
    /\ Await("threadsRequest", "threads", <<>>, <<>>, "getThreads", <<>>)

\* new Thread(thread.ID, `Thread ${thread.ID.toFixed()}`)
ThreadOf(row) == [id |-> row.id, name |-> <<"Thread ">> \o ToFixed(Number(row.id))]

threadsResume(r) ==
    ResumeRows("threadsResume", r, "threads", "typed",
               [rows \in RowSeqs |->
                   [threads |-> Map(rows, [row \in RowValues |-> ThreadOf(row)])]],
               "Unable to process request")

\* ---- stackTrace, scopes, evaluate

\* A faulty variant of RecordFrames: the frame id stored in place of the thread id.
RECURSIVE RecordFramesMutFrameId(_, _, _)
RecordFramesMutFrameId(mapping, rows, threadId) ==
    IF rows = <<>> THEN mapping
    ELSE RecordFramesMutFrameId(
             [f \in DOMAIN mapping \cup {Head(rows).id} |->
                 IF f = Head(rows).id THEN Head(rows).id ELSE mapping[f]],
             Tail(rows), threadId)

\* A faulty variant of RecordFrames: the mapping is replaced by the entries of
\* the rows instead of being added to.
RecordFramesMutReplace(mapping, rows, threadId) ==
    [f \in {rows[i].id : i \in DOMAIN rows} |-> threadId]

\* this._scopeThreadMapping[row.id] = args.threadId, for each row handled
RECURSIVE RecordFrames(_, _, _)
RecordFrames(mapping, rows, threadId) ==
    IF rows = <<>> THEN mapping
    ELSE RecordFrames(
             [f \in DOMAIN mapping \cup {Head(rows).id} |->
                 IF f = Head(rows).id THEN threadId ELSE mapping[f]],
             Tail(rows), threadId)

\* this._scopeThreadMapping[frameId]: <<>> is undefined
ThreadOfFrame(frameId) ==
    IF frameId \in DOMAIN _scopeThreadMapping THEN <<_scopeThreadMapping[frameId]>> ELSE <<>>

stackTraceRequest(threadId) ==
    /\ Await("stackTraceRequest", "stackTrace", [threadId |-> threadId],
             [threadId |-> threadId],
             "getStackTraceInThread", [threadID |-> <<threadId>>])

StackFrameOf(row) == [id |-> row.id]

\* path.normalize(row.source) throws unless source is a string; the rows before
\* the throwing one have been recorded in the mapping by then.
stackTraceResume(r) ==
    /\ Awaiting(r, "stackTrace")
    /\ \E reply \in StackReplies(task[r].arg.threadId) :
          LET threadId == task[r].arg.threadId
              out == invokeService(reply)
              handled == IF out.resolved /\ out.value.hasRows
                         THEN Handled(out.value.rows, "typed") ELSE <<>>
              ok == Completes(out, "typed")
          IN  /\ _scopeThreadMapping' = RecordFrames(_scopeThreadMapping, handled, threadId)
              /\ framesReturned' =
                    IF ok
                    THEN framesReturned \cup {<<handled[i].id, threadId>> : i \in DOMAIN handled}
                    ELSE framesReturned
              /\ Finish("stackTraceResume", r, reply,
                        IF ok
                        THEN <<SuccessResponse(r, "stackTrace",
                                   [stackFrames |->
                                        Map(handled,
                                            [row \in RowValues |-> StackFrameOf(row)]),
                                    totalFrames |-> Len(handled)])>>
                        ELSE CatchOutput(r, "stackTrace",
                                         "Unable to process stack trace request"))

scopesRequest(frameId) ==
    /\ Await("scopesRequest", "scopes", [frameId |-> frameId], <<>>, "getScopesInThread",
             [threadID |-> ThreadOfFrame(frameId), frameID |-> <<frameId>>])

\* new Scope(scopeRow.name, scopeRow.variablesReference, false)
ScopeOf(row) == [variablesReference |-> row.id, expensive |-> FALSE]

scopesResume(r) ==
    ResumeRows("scopesResume", r, "scopes", "field",
               [rows \in RowSeqs |->
                   [scopes |-> Map(rows, [row \in RowValues |-> ScopeOf(row)])]],
               "Unable to process scopes request.")

\* args.frameId: <<>> when the request carries none.  The lookup
\* this._scopeThreadMapping[undefined] gives undefined.
evaluateRequest(frameId) ==
    /\ Await("evaluateRequest", "evaluate", [frameId |-> frameId], <<>>,
             IF frameId = <<>> THEN "evaluateGlobally" ELSE "evaluate",
             [threadID |-> IF frameId = <<>> THEN <<>> ELSE ThreadOfFrame(frameId[1]),
              frameID |-> frameId])

\* result.rows[0].<field> throws when there is no rows array, no first row, or
\* a null first row.
FirstRowThrows(out) ==
    ~out.resolved \/ ~out.value.hasRows \/ out.value.rows = <<>> \/ out.value.rows[1].null

\* A faulty variant of ResumeFirstRow: a result without a first row is answered
\* with a success response whose fields are undefined.
ResumeFirstRowMutUndefined(op, r, cmd, format) ==
    /\ Awaiting(r, cmd)
    /\ \E reply \in RowReplies :
          LET out == invokeService(reply)
          IN  Resume(op, r, reply,
                     IF ~out.resolved THEN CatchOutput(r, cmd, format)
                     ELSE IF FirstRowThrows(out)
                     THEN <<SuccessResponse(r, cmd, [variablesReference |-> <<>>])>>
                     ELSE <<SuccessResponse(r, cmd,
                                [variablesReference |-> out.value.rows[1].id])>>)

\* try { result = await invokeService; body from result.rows[0]; sendResponse }
\* catch { sendErrorResponse }
ResumeFirstRow(op, r, cmd, format) ==
    /\ Awaiting(r, cmd)
    /\ \E reply \in RowReplies :
          LET out == invokeService(reply)
          IN  Resume(op, r, reply,
                     IF FirstRowThrows(out) THEN CatchOutput(r, cmd, format)
                     ELSE <<SuccessResponse(r, cmd,
                                [variablesReference |-> out.value.rows[1].id])>>)

evaluateResume(r) ==
    ResumeFirstRow("evaluateResume", r, "evaluate",
                   "Unable to process evaluate request")

\* ---- variables, setVariable

variablesRequest ==
    /\ Await("variablesRequest", "variables", <<>>, <<>>, "getVariableContents", <<>>)

\* The rows are pushed as they are.
variablesResume(r) ==
    ResumeRows("variablesResume", r, "variables", "never",
               [rows \in RowSeqs |-> [variables |-> rows]],
               "Unable to process variables request")

setVariableRequest ==
    /\ Await("setVariableRequest", "setVariable", <<>>, <<>>, "setVariable", <<>>)

setVariableResume(r) ==
    ResumeFirstRow("setVariableResume", r, "setVariable",
                   "Unable to process set variable request")

\* ---- pause, continue, next, stepIn, stepOut

pauseRequest(threadId) ==
    /\ Await("pauseRequest", "pause", [threadId |-> threadId], <<>>, "suspendThread", [threadID |-> <<threadId>>])

pauseResume(r) ==
    ResumePlain("pauseResume", r, "pause", "Unable to process pause request.")

\* The service continueRequest invokes and its arguments.
ContinueCall(singleThread, threadId) ==
    IF singleThread THEN Post("resumeThread", [threadID |-> <<threadId>>])
    ELSE Post("resumeAllThreads", <<>>)

continueRequest(singleThread, threadId) ==
    /\ Await("continueRequest", "continue",
             [singleThread |-> singleThread, threadId |-> threadId],
             [singleThread |-> singleThread],
             ContinueCall(singleThread, threadId).service,
             ContinueCall(singleThread, threadId).args)

\* After the await the handler sets response.body and returns: sendResponse is
\* not called.  The catch sends the error response.
continueResume(r) ==
    /\ Awaiting(r, "continue")
    /\ \E reply \in PlainReplies :
          Resume("continueResume", r, reply,
                 IF invokeService(reply).resolved THEN <<>>
                 ELSE CatchOutput(r, "continue", "Unable to process continue request"))

\* Both branches of `if (args.singleThread)` invoke the same service.
nextRequest(singleThread, threadId) ==
    /\ Await("nextRequest", "next", [singleThread |-> singleThread, threadId |-> threadId], <<>>,
             "stepOverThread", [threadID |-> <<threadId>>])

nextResume(r) ==
    ResumePlain("nextResume", r, "next", "Unable to process step over request")

stepInRequest(singleThread, threadId) ==
    /\ Await("stepInRequest", "stepIn", [singleThread |-> singleThread, threadId |-> threadId], <<>>,
             "stepInThread", [threadID |-> <<threadId>>])

stepInResume(r) ==
    ResumePlain("stepInResume", r, "stepIn", "Unable to process step in request")

stepOutRequest(singleThread, threadId) ==
    /\ Await("stepOutRequest", "stepOut", [singleThread |-> singleThread, threadId |-> threadId], <<>>,
             "stepOutThread", [threadID |-> <<threadId>>])

stepOutResume(r) ==
    ResumePlain("stepOutResume", r, "stepOut", "Unable to process step in request")

\* ------------------------------------------------------ specification

NoStep == Step("", 0, <<>>, <<>>, <<>>, <<>>, FALSE)

\* The session after construction, on a host of the given platform.
InitOn(host) ==
    /\ platform = host
    /\ nextId = 1
    /\ indexOnly = TRUE
    /\ task = [r \in ReqIds |-> Idle]
    /\ unawaited = {}
    /\ resp = [r \in ReqIds |-> <<>>]
    /\ ws = [r \in ReqIds |-> NoSock]
    /\ _websocket = <<>>
    /\ conn = <<>>
    /\ _scopeThreadMapping = <<>>
    /\ _cancellationTokens = {}
    /\ npush = 0
    /\ framesReturned = {}
    /\ step = NoStep

Init == InitOn("win32")

Next ==
    \/ initializeRequest
    \/ configurationDoneRequest
    \/ \E args \in AttachArguments : attachRequest(args)
    \/ \E s \in ReqIds : onopen(s)
    \/ \E s \in ReqIds, message \in ErrorMessages : onerror(s, message)
    \/ \E s \in ReqIds : onclose(s)
    \/ \E s \in ReqIds, frame \in Frames : attachOnMessage(s, frame)
    \/ \E s \in ReqIds, frame \in Frames : _didRecieveMessageWithEvent(s, frame)
    \/ disconnectRequest
    \/ \E r \in ReqIds : Settled(r)
    \/ launchRequest
    \/ \E path \in Paths : setBreakPointsRequest(path)
    \/ \E r \in ReqIds : setBreakPointsResume(r)
    \/ \E path \in Paths : breakpointLocationsRequest(path)
    \/ \E r \in ReqIds : breakpointLocationsResume(r)
    \/ \E filterOptions \in FilterOptions : setExceptionBreakPointsRequest(filterOptions)
    \/ \E r \in ReqIds : setExceptionBreakPointsResume(r)
    \/ \E threadId \in Threads : exceptionInfoRequest(threadId)
    \/ \E r \in ReqIds : exceptionInfoResume(r)
    \/ threadsRequest
    \/ \E r \in ReqIds : threadsResume(r)
    \/ \E threadId \in Threads : stackTraceRequest(threadId)
    \/ \E r \in ReqIds : stackTraceResume(r)
    \/ \E frameId \in FrameIds : scopesRequest(frameId)
    \/ \E r \in ReqIds : scopesResume(r)
    \/ variablesRequest
    \/ \E r \in ReqIds : variablesResume(r)
    \/ setVariableRequest
    \/ \E r \in ReqIds : setVariableResume(r)
    \/ \E threadId \in Threads : pauseRequest(threadId)
    \/ \E r \in ReqIds : pauseResume(r)
    \/ \E singleThread \in BOOLEAN, threadId \in Threads : continueRequest(singleThread, threadId)
    \/ \E r \in ReqIds : continueResume(r)
    \/ reverseContinueRequest
    \/ \E singleThread \in BOOLEAN, threadId \in Threads : nextRequest(singleThread, threadId)
    \/ \E r \in ReqIds : nextResume(r)
    \/ stepBackRequest
    \/ stepInTargetsRequest
    \/ \E singleThread \in BOOLEAN, threadId \in Threads : stepInRequest(singleThread, threadId)
    \/ \E r \in ReqIds : stepInResume(r)
    \/ \E singleThread \in BOOLEAN, threadId \in Threads : stepOutRequest(singleThread, threadId)
    \/ \E r \in ReqIds : stepOutResume(r)
    \/ \E frameId \in {<<>>} \cup {<<f>> : f \in FrameIds} : evaluateRequest(frameId)
    \/ \E r \in ReqIds : evaluateResume(r)
    \/ setExpressionRequest
    \/ dataBreakpointInfoRequest
    \/ setDataBreakpointsRequest
    \/ completionsRequest
    \/ \E requestId \in {0} \cup ReqIds : cancelRequest(requestId)
    \/ disassembleRequest
    \/ setInstructionBreakpointsRequest
    \/ customRequest

Spec == Init /\ [][Next]_vars

\* The two handlers that transform a source path, on either host and over
\* PathInputs.
InitPath == \E host \in Platforms : InitOn(host)

NextPath ==
    \/ \E path \in PathInputs : setBreakPointsRequest(path)
    \/ \E r \in ReqIds : setBreakPointsResume(r)
    \/ \E path \in PathInputs : breakpointLocationsRequest(path)
    \/ \E r \in ReqIds : breakpointLocationsResume(r)

SpecPath == InitPath /\ [][NextPath]_vars

\* ------------------------------------------------------------ properties

\* Nothing that could still answer request r is outstanding: its handler has
\* returned, no HTTP call made for it is in flight, and no live socket still has
\* the handlers that hold its response installed.
Over(r) ==
    /\ task[r].pc = "done"
    /\ r \notin unawaited
    /\ ~(ws[r].readyState \in {"connecting", "open", "closing"} /\ ws[r].onmessage = "handshake")

\* C1: every request whose handling is over has been sent exactly one response
\* (success or error), whatever the outcome of its remote call or handshake.
C1_ExactlyOneResponse == \A r \in ReqIds : Over(r) => Len(resp[r]) = 1

\* C2: when the handshake handler of an attach request is given a frame that
\* parses to an object with authenticated = true, it sends the success response
\* to that attach request and nothing else, does not close the socket, and
\* leaves the socket with the steady-state handlers installed (Attached).
C2_AttachSucceeds ==
    (/\ step.op = "attachOnMessage"
     /\ ParsesToObject(step.input)
     /\ step.input.authenticated)
    => /\ step.sent = <<SuccessResponse(step.req, "attach", <<>>)>>
       /\ resp[step.req][Len(resp[step.req])] = TRUE
       /\ step.sock = <<>>
       /\ ~step.threw
       /\ ws[step.req].onmessage = "dispatch"
       /\ ws[step.req].onerror = "noop"

\* An attach request whose socket opened and whose first inbound frame said
\* authenticated: the socket is open and current, and the request has its one
\* response, a success.
C2_Witness ==
    /\ step.op = "attachOnMessage"
    /\ step.input = Authenticated(TRUE)
    /\ npush = 1
    /\ ws[step.req].readyState = "open"
    /\ _websocket = <<step.req>>
    /\ resp[step.req] = <<TRUE>>

\* C3: when the handshake handler is given a frame that cannot be parsed or that
\* does not say authenticated = true, it sends an error response to the attach
\* request and closes the socket.
C3_FailedHandshakeErrorsAndCloses ==
    (/\ step.op = "attachOnMessage"
     /\ (~ParsesToObject(step.input) \/ ~step.input.authenticated))
    => /\ Len(step.sent) = 1
       /\ step.sent[1].type = "response"
       /\ step.sent[1].request_seq = step.req
       /\ ~step.sent[1].success
       /\ step.sock = <<[do |-> "close", socket |-> step.req]>>

\* The handlers that reject their request.
RejectedHandlers ==
    {"launchRequest", "reverseContinueRequest", "stepBackRequest", "stepInTargetsRequest",
     "setExpressionRequest", "dataBreakpointInfoRequest", "setDataBreakpointsRequest",
     "disassembleRequest", "setInstructionBreakpointsRequest", "customRequest"}

\* C4: a handler of the rejected set sends exactly one message, an error response
\* to its request, issues no remote call and does nothing to any socket.
C4_RejectedNeverReachTarget ==
    step.op \in RejectedHandlers
    => /\ Len(step.sent) = 1
       /\ step.sent[1].type = "response"
       /\ step.sent[1].request_seq = step.req
       /\ step.sent[1].command \in RejectedCommands
       /\ ~step.sent[1].success
       /\ resp[step.req] = <<FALSE>>
       /\ step.issued = <<>>
       /\ step.sock = <<>>

\* A rejected request handled while the session is attached: the current socket
\* is open with the steady-state handler installed.
C4_Witness ==
    /\ step.op \in RejectedHandlers
    /\ _websocket # <<>>
    /\ ws[_websocket[1]].readyState = "open"
    /\ ws[_websocket[1]].onmessage = "dispatch"
    /\ resp[step.req] = <<FALSE>>

\* The continuations of the handlers that await their remote call.
MappedCallbacks ==
    {"setBreakPointsResume", "breakpointLocationsResume", "setExceptionBreakPointsResume",
     "exceptionInfoResume", "threadsResume", "stackTraceResume", "scopesResume",
     "variablesResume", "setVariableResume", "pauseResume", "continueResume", "nextResume",
     "stepInResume", "stepOutResume", "evaluateResume"}

\* C5: when the remote call of a mapped request (an awaited call, or the call of
\* a disconnect request) fails, the callback sends exactly one message, an error
\* response with id 0 to that request.
C5_FailedCallGivesErrorResponse ==
    (/\ \/ step.op \in MappedCallbacks
        \/ step.op = "Settled" /\ ws[step.req].readyState = "none"
     /\ step.input \in Failures)
    => /\ Len(step.sent) = 1
       /\ step.sent[1].type = "response"
       /\ step.sent[1].request_seq = step.req
       /\ ~step.sent[1].success
       /\ step.sent[1].body.error.id = 0
       /\ ~step.threw

\* C6: once a stackTrace response for thread T has returned frame f, a scopes or
\* evaluate request that names f issues its remote call with threadID = T,
\* whatever was handled in between.
C6_FrameResolvesToItsThread ==
    \A pair \in framesReturned :
       /\ (step.op = "scopesRequest" /\ step.input.frameId = pair[1])
          => /\ Len(step.issued) = 1
             /\ step.issued[1].service = "getScopesInThread"
             /\ step.issued[1].args = [threadID |-> <<pair[2]>>, frameID |-> <<pair[1]>>]
       /\ (step.op = "evaluateRequest" /\ step.input.frameId = <<pair[1]>>)
          => /\ Len(step.issued) = 1
             /\ step.issued[1].service = "evaluate"
             /\ step.issued[1].args = [threadID |-> <<pair[2]>>, frameID |-> <<pair[1]>>]

\* A scopes request for frame 2 of thread 1, after the stack traces of both
\* threads have been returned.
C6_Witness ==
    /\ step.op = "scopesRequest"
    /\ step.input.frameId = 2
    /\ {<<2, 1>>, <<3, 2>>} \subseteq framesReturned
    /\ step.issued[1].args.threadID = <<1>>

\* C7: a scopes or evaluate request that names a frame id absent from the
\* frame-to-thread mapping is answered with an error response and issues no
\* remote call.
C7_UnknownFrameIsCorrelationError ==
    (\/ /\ step.op = "scopesRequest"
        /\ step.input.frameId \notin DOMAIN _scopeThreadMapping
     \/ /\ step.op = "evaluateRequest"
        /\ step.input.frameId # <<>>
        /\ step.input.frameId[1] \notin DOMAIN _scopeThreadMapping)
    => /\ step.issued = <<>>
       /\ Len(step.sent) = 1
       /\ step.sent[1].type = "response"
       /\ step.sent[1].request_seq = step.req
       /\ ~step.sent[1].success

\* C8: a continue request with singleThread = true and thread id t invokes
\* resumeThread with threadID = t, one without singleThread invokes
\* resumeAllThreads; and when the call succeeds the handler sends the response
\* to the request, with allThreadsContinued = false for the former and true for
\* the latter.
C8_ContinueCallAndResponse ==
    /\ [](step.op = "continueRequest"
          => /\ Len(step.issued) = 1
             /\ step.issued[1].service =
                   (IF step.input.singleThread THEN "resumeThread" ELSE "resumeAllThreads")
             /\ step.input.singleThread
                => step.issued[1].args = [threadID |-> <<step.input.threadId>>])
    /\ [][(/\ step'.op = "continueResume"
           /\ task[step'.req].pc = "await"
           /\ task'[step'.req].pc = "done"
           /\ invokeService(step'.input).resolved)
          => step'.sent =
                <<SuccessResponse(step'.req, "continue",
                     [allThreadsContinued |-> ~task[step'.req].arg.singleThread])>>]_vars

\* C9: initializeRequest sends the capabilities response and then one
\* initialized event, in that order and nothing else, and no other handler sends
\* an initialized event.
C9_InitializeRespondsThenInitialized ==
    /\ step.op = "initializeRequest"
       => step.sent = <<SuccessResponse(step.req, "initialize", Capabilities), InitializedEvent>>
    /\ \A i \in DOMAIN step.sent :
          (step.sent[i].type = "event" /\ step.sent[i].event = "initialized")
          => step.op = "initializeRequest"

\* An initialize request handled before any attach request: no socket exists
\* and no connection details are stored.
C9_Witness ==
    /\ step.op = "initializeRequest"
    /\ conn = <<>>
    /\ \A r \in ReqIds : ws[r].readyState = "none"
    /\ Len(step.sent) = 2
    /\ step.sent[1].type = "response"
    /\ step.sent[2].type = "event"

\* C10: the steady-state handler, given a frame that parses to an object, sends
\* for name suspended exactly one stopped event with the frame's reason, thread
\* id and exception flag, for resumed exactly one continued event with the
\* frame's thread id and allThreadsContinued = false, for log exactly one output
\* event with the body and the level, and for any other name nothing; it sends
\* no response, issues no call, and changes nothing of the session's state.
C10_DispatchByName ==
    /\ []((step.op = "_didRecieveMessageWithEvent" /\ ParsesToObject(step.input))
          => /\ step.input.name = "suspended"
                => step.sent =
                      <<Event("stopped", [reason |-> step.input.reason,
                                          threadId |-> step.input.threadID,
                                          exceptionText |-> step.input.exception])>>
             /\ step.input.name = "resumed"
                => step.sent =
                      <<Event("continued", [threadId |-> step.input.threadID,
                                            allThreadsContinued |-> FALSE])>>
             /\ step.input.name = "log"
                => step.sent =
                      <<Event("output", [output |-> step.input.body \o <<"\n">>,
                                         level |-> step.input.level])>>
             /\ step.input.name \notin {"suspended", "resumed", "log"} => step.sent = <<>>
             /\ step.issued = <<>>
             /\ step.sock = <<>>
             /\ ~step.threw)
    /\ [][(step'.op = "_didRecieveMessageWithEvent" /\ npush' = npush + 1)
          => UNCHANGED <<task, unawaited, resp, ws, _websocket, conn, _scopeThreadMapping,
                         _cancellationTokens>>]_vars

\* A suspended frame for thread 2 handled in steady state, on an open socket
\* whose attach request succeeded.
C10_Witness ==
    /\ step.op = "_didRecieveMessageWithEvent"
    /\ step.input = Suspended(2, "exception", TRUE)
    /\ ws[step.req].readyState = "open"
    /\ resp[step.req] = <<TRUE>>
    /\ step.sent = <<StoppedEvent(<<"exception">>, <<2>>, <<TRUE>>)>>

\* C11: the arguments a setExceptionBreakpoints request sends to
\* setBreakOnExceptions are three booleans that say which of the three filter ids
\* occur in the request's filterOptions: they depend on the set of the ids
\* only, not on their order or repetition nor on anything handled before.
C11_ExceptionFlagsFromFilterSet ==
    step.op = "setExceptionBreakPointsRequest"
    => /\ Len(step.issued) = 1
       /\ step.issued[1].service = "setBreakOnExceptions"
       /\ step.issued[1].args =
             [breaks |-> Has(step.input.filterOptions, "exceptions"),
              caughtExceptions |-> Has(step.input.filterOptions, "caughtExceptions"),
              uncaughtExceptions |-> Has(step.input.filterOptions, "uncaughtExceptions")]

\* A second setExceptionBreakpoints request, whose filterOptions repeat an id
\* and give the ids in another order than the capabilities list them.
C11_Witness ==
    /\ step.op = "setExceptionBreakPointsRequest"
    /\ step.req = 2
    /\ step.input.filterOptions = <<"uncaughtExceptions", "exceptions", "uncaughtExceptions">>
    /\ step.issued[1].args =
          [breaks |-> TRUE, caughtExceptions |-> FALSE, uncaughtExceptions |-> TRUE]

\* C12: the path a setBreakpoints or breakpointLocations request sends to its
\* service is, in both requests alike, the request's path unchanged on a host
\* that is not Windows, and on Windows the path with its first character in
\* upper case and every later backslash replaced by a slash; and transforming
\* the path sent once more gives it back unchanged.
C12_PathNormalization ==
    (step.op \in {"setBreakPointsRequest", "breakpointLocationsRequest"} /\ step.issued # <<>>)
    => LET path == step.input.path
           sent == step.issued[1].args.path
       IN  /\ platform # "win32" => sent = path
           /\ platform = "win32"
              => /\ Len(sent) = Len(path)
                 /\ sent[1] = toUpperCase(path[1])
                 /\ \A i \in 2 .. Len(path) :
                       sent[i] = (IF path[i] = "\\" THEN "/" ELSE path[i])
           /\ NormalizePath(platform, sent) = sent

\* A breakpointLocations request on Windows whose path changes in both its
\* first character and a separator, handled after an earlier request.
C12_Witness ==
    /\ step.op = "breakpointLocationsRequest"
    /\ platform = "win32"
    /\ step.req = 2
    /\ step.input.path = <<"c", "\\">>
    /\ step.issued[1].args.path = <<"C", "/">>

\* C13: a successful setBreakpoints response holds one breakpoint descriptor per
\* row of the setBreakpointsForFile result, in the rows' order, each with its
\* row's verified flag, line and column span, and the row's sequence id as id.
C13_OneBreakpointPerRow ==
    (step.op = "setBreakPointsResume" /\ step.sent[1].success)
    => /\ ~step.input.err /\ step.input.parses /\ step.input.value.hasRows
       /\ LET rows == step.input.value.rows
              breakpoints == step.sent[1].body.breakpoints
          IN  /\ Len(breakpoints) = Len(rows)
              /\ \A i \in 1 .. Len(rows) :
                    /\ breakpoints[i].verified = rows[i].verified
                    /\ breakpoints[i].line = rows[i].line
                    /\ breakpoints[i].column = rows[i].column
                    /\ breakpoints[i].endLine = rows[i].endLine
                    /\ breakpoints[i].endColumn = rows[i].endColumn
                    /\ breakpoints[i].id = rows[i].sequenceID

C13_Witness ==
    /\ step.op = "setBreakPointsResume" /\ step.sent[1].success
    /\ Len(step.sent[1].body.breakpoints) = 2
    /\ step.input.value.rows[1].sequenceID = 2 /\ step.input.value.rows[1].verified
    /\ step.sent[1].body.breakpoints[1].id = 2 /\ step.sent[1].body.breakpoints[1].verified
    /\ step.sent[1].body.breakpoints[1].line = 5
    /\ step.sent[1].body.breakpoints[2].id = 1 /\ ~step.sent[1].body.breakpoints[2].verified

\* The sockets that are open, and the connection state they give the session:
\* Attached while an open socket has the steady-state handler installed (the
\* target's frames reach the frontend as events), Disconnected otherwise.
OpenSockets == {s \in ReqIds : ws[s].readyState = "open"}

ConnectionState ==
    IF \E s \in OpenSockets : ws[s].onmessage = "dispatch" THEN "Attached" ELSE "Disconnected"

\* The handshake handler ran on a frame that does not authenticate.
HandshakeFailed ==
    step.op = "attachOnMessage" /\ (~ParsesToObject(step.input) \/ ~step.input.authenticated)

\* C14: the connection state goes from Disconnected to Attached only by a
\* handshake that answers its attach request with success, and from Attached to
\* Disconnected only by a disconnect request or a handshake or channel failure;
\* after a disconnect request or a failed handshake no socket is open and the
\* session is Disconnected.
C14_ConnectionStateMachine ==
    /\ []((step.op = "disconnectRequest" \/ HandshakeFailed)
          => (OpenSockets = {} /\ ConnectionState = "Disconnected"))
    /\ [][(ConnectionState = "Disconnected" /\ ConnectionState' = "Attached")
          => (/\ step'.op = "attachOnMessage"
              /\ step'.sent = <<SuccessResponse(step'.req, "attach", <<>>)>>)]_vars
    /\ [][(ConnectionState = "Attached" /\ ConnectionState' = "Disconnected")
          => step'.op \in {"disconnectRequest", "attachOnMessage", "onerror", "onclose"}]_vars

\* C15: when the connectDebugger call made by the handshake handler of an attach
\* request fails, that attach request is answered with an error response and
\* never with success.
C15_ConnectDebuggerFailureFailsAttach ==
    (/\ step.op = "Settled"
     /\ ws[step.req].readyState # "none"
     /\ step.input \in Failures)
    => /\ resp[step.req] # <<>>
       /\ \A i \in 1 .. Len(resp[step.req]) : ~resp[step.req][i]

\* C16: a disconnect request invokes disconnectDebugger and closes the socket the
\* session holds, whatever the outcome of the call; and when the call fails, the
\* request is answered with an error response.
C16_DisconnectNotifiesClosesAndReports ==
    /\ step.op = "disconnectRequest"
       => /\ Len(step.issued) = 1
          /\ step.issued[1].service = "disconnectDebugger"
          /\ _websocket # <<>>
             => /\ step.sock = <<[do |-> "close", socket |-> _websocket[1]]>>
                /\ ws[_websocket[1]].readyState \in {"closing", "closed"}
    /\ (step.op = "Settled" /\ ws[step.req].readyState = "none" /\ step.input \in Failures)
       => /\ resp[step.req] # <<>>
          /\ ~resp[step.req][Len(resp[step.req])]
          /\ ~step.threw

\* C17: when the socket of an attach request fails before it has opened, the
\* error handler answers that attach request with one error response whose
\* message is the message of the socket's error, no success response has been
\* sent for that attach, and none is sent once the socket is closed.
C17_OpenFailureGivesTransportMessage ==
    /\ []((step.op = "onerror" /\ step.input.readyState = "connecting")
          => /\ step.sent = <<ErrorResponse(step.req, "attach", 0, step.input.message)>>
             /\ resp[step.req] = <<FALSE>>
             /\ ws[step.req].readyState = "closed")
    /\ [][\A s \in ReqIds : ws[s].readyState = "closed" => resp'[s] = resp[s]]_vars

C17_Witness ==
    /\ step.op = "onerror" /\ step.input.readyState = "connecting"
    /\ step.input.message = "connect ECONNREFUSED"
    /\ step.sent[1].body.error.format = "connect ECONNREFUSED"
    /\ ~step.sent[1].success
    /\ resp[step.req] = <<FALSE>>

\* C18: when the steady-state handler is given a frame whose data is not JSON,
\* the frame is dropped: the handler sends nothing and raises no error.
C18_UnparsableFrameIsDropped ==
    (step.op = "_didRecieveMessageWithEvent" /\ step.input.json = "unparsable")
    => (step.sent = <<>> /\ ~step.threw)

\* C19: the steady-state message handler and the no-op error handler are
\* installed on a socket only by a handshake step whose frame says
\* authenticated = true; and a frame is dispatched as an event only on a socket
\* whose attach request was answered with success.
C19_HandlersSwappedOnlyOnSuccess ==
    /\ [][\A s \in ReqIds :
            (\/ ws[s].onmessage # "dispatch" /\ ws'[s].onmessage = "dispatch"
             \/ ws[s].onerror # "noop" /\ ws'[s].onerror = "noop")
            => /\ step'.op = "attachOnMessage"
               /\ step'.req = s
               /\ ParsesToObject(step'.input)
               /\ step'.input.authenticated]_vars
    /\ []((step.op = "_didRecieveMessageWithEvent" /\ step.sent # <<>>)
          => (resp[step.req] # <<>> /\ resp[step.req][1]))

\* C20: with stackTrace requests for different threads in flight together and
\* completing in any order, every frame id a stackTrace response has returned is
\* mapped to the thread of the request that returned it, and no step removes or
\* changes an entry of the frame-to-thread mapping.
C20_ConcurrentStackTracesKeepIndex ==
    /\ [](\A pair \in framesReturned :
             /\ pair[1] \in DOMAIN _scopeThreadMapping
             /\ _scopeThreadMapping[pair[1]] = pair[2])
    /\ [][\A f \in DOMAIN _scopeThreadMapping :
             /\ f \in DOMAIN _scopeThreadMapping'
             /\ _scopeThreadMapping'[f] = _scopeThreadMapping[f]]_vars

\* Requests 1 (thread 1) and 2 (thread 2) were in flight together and request 2
\* completed first.
C20_Witness ==
    /\ step.op = "stackTraceResume" /\ step.req = 1 /\ nextId = 3
    /\ task[2].pc = "done"
    /\ framesReturned = {<<1, 1>>, <<2, 1>>, <<3, 2>>}
    /\ _scopeThreadMapping = <<1, 1, 2>>

\* The requests suspended at their remote call, and the callback that resumes
\* the handler of request r.
Pending == {r \in ReqIds : task[r].pc = "await"}

Callback(r) ==
    \/ setBreakPointsResume(r)
    \/ breakpointLocationsResume(r)
    \/ setExceptionBreakPointsResume(r)
    \/ exceptionInfoResume(r)
    \/ threadsResume(r)
    \/ stackTraceResume(r)
    \/ scopesResume(r)
    \/ variablesResume(r)
    \/ setVariableResume(r)
    \/ pauseResume(r)
    \/ continueResume(r)
    \/ nextResume(r)
    \/ stepInResume(r)
    \/ stepOutResume(r)
    \/ evaluateResume(r)

\* C21: while a request is suspended at its remote call, the session can still
\* take a new request (one answered at once, and one mapped to a remote call),
\* resume any suspended request whose reply arrives, and dispatch any frame that
\* arrives on a socket with the steady-state handler.
C21_PendingCallBlocksNothing ==
    Pending # {}
    => /\ nextId <= MaxReq => (ENABLED configurationDoneRequest /\ ENABLED threadsRequest)
       /\ \A r \in Pending : ENABLED Callback(r)
       /\ \A s \in ReqIds :
             (CanDeliver(s) /\ ws[s].onmessage = "dispatch")
             => \A frame \in Frames : ENABLED _didRecieveMessageWithEvent(s, frame)

\* A stopped event is sent while request 2 is suspended at its remote call.
C21_Witness ==
    /\ step.op = "_didRecieveMessageWithEvent"
    /\ Len(step.sent) = 1 /\ step.sent[1].event = "stopped"
    /\ task[2].pc = "await"
    /\ resp[2] = <<>>

\* C22: a cancel request adds the request id it names to the cancellation
\* registry, sends nothing, and leaves every other field of the session and
\* every other request as it was; and the call and the response of a request
\* are those its arguments and its reply determine, cancelled or not (stated
\* in full for pause, as one response following the reply for every mapped
\* request but continue).
C22_CancelOnlyRecords ==
    /\ [][(step'.op = "cancelRequest" /\ step'.req = nextId)
          => /\ _cancellationTokens' =
                   _cancellationTokens \cup ({step'.input.requestId} \ {0})
             /\ step'.sent = <<>> /\ step'.issued = <<>> /\ step'.sock = <<>>
             /\ \A r \in ReqIds \ {nextId} : task'[r] = task[r]
             /\ UNCHANGED <<platform, unawaited, resp, ws, _websocket, conn,
                            _scopeThreadMapping, npush, framesReturned>>]_vars
    /\ [](step.op = "pauseRequest"
          => step.issued = <<Post("suspendThread", [threadID |-> <<step.input.threadId>>])>>)
    /\ [](step.op = "pauseResume"
          => step.sent = (IF invokeService(step.input).resolved
                          THEN <<SuccessResponse(step.req, "pause", <<>>)>>
                          ELSE CatchOutput(step.req, "pause", "Unable to process pause request.")))
    /\ []((step.op \in MappedCallbacks \ {"continueResume"}
           /\ step.req \in _cancellationTokens)
          => /\ Len(step.sent) = 1
             /\ step.sent[1].type = "response"
             /\ step.sent[1].request_seq = step.req
             /\ step.input \in Failures => ~step.sent[1].success)

\* A pause request is cancelled while its call is in flight and is then
\* answered with success.
C22_Witness ==
    /\ step.op = "pauseResume" /\ step.req = 1
    /\ _cancellationTokens = {1}
    /\ task[2].pc = "done"
    /\ step.sent = <<SuccessResponse(1, "pause", <<>>)>>

\* C23: when the call of a setVariable or evaluate request succeeds with a
\* result that has no rows (an empty rows array, or none), the handler sends
\* exactly one message, an error response to the request, and raises no error.
C23_EmptyRowsGiveErrorResponse ==
    (/\ step.op \in {"setVariableResume", "evaluateResume"}
     /\ invokeService(step.input).resolved
     /\ (~step.input.value.hasRows \/ step.input.value.rows = <<>>))
    => /\ Len(step.sent) = 1
       /\ step.sent[1].type = "response"
       /\ step.sent[1].request_seq = step.req
       /\ ~step.sent[1].success
       /\ ~step.threw
       /\ resp[step.req] = <<FALSE>>

C23_Witness ==
    /\ step.op = "evaluateResume"
    /\ step.input = OkBody(Rows(<<>>))
    /\ step.sent = <<ErrorResponse(step.req, "evaluate", 0, "Unable to process evaluate request")>>

\* The steps that run when a remote call has completed.
CallCompletions == MappedCallbacks \cup {"Settled"}

\* No step issues more than one remote call; the completion of a call issues
\* none, and the handler of a request is resumed once; a failed handshake opens
\* no new socket and issues no call.
NoRetry ==
    /\ [](Len(step.issued) <= 1)
    /\ [](step.op \in CallCompletions => step.issued = <<>> /\ step.sock = <<>>)
    /\ [](HandshakeFailed
          => step.issued = <<>> /\ \A i \in 1 .. Len(step.sock) : step.sock[i].do # "new")
    /\ [][step'.op \in MappedCallbacks
          => task[step'.req].pc = "await" /\ task'[step'.req].pc = "done"]_vars

\* A failed remote call or a failed handshake ends with an error response to
\* its request.
FailureFails ==
    ((step.op \in CallCompletions /\ step.input \in Failures) \/ HandshakeFailed)
    => /\ Len(step.sent) = 1
       /\ step.sent[1].type = "response"
       /\ step.sent[1].request_seq = step.req
       /\ ~step.sent[1].success
       /\ \A i \in 1 .. Len(resp[step.req]) : ~resp[step.req][i]

\* C24: a request issues at most one remote call, nothing is retried after a
\* failed call or a failed handshake, and one failed call fails its request as
\* one failed handshake fails its attach request.
C24_OneCallNoRetry == NoRetry /\ []FailureFails

\* The events that come from the target.
TargetEvents == {"stopped", "continued", "output"}

\* C25: a step sends a stopped, continued or output event only for a socket
\* whose attach request has already been answered with a success response.
C25_NoEventBeforeAttachSuccess ==
    \A i \in 1 .. Len(step.sent) :
       (step.sent[i].type = "event" /\ step.sent[i].event \in TargetEvents)
       => \E j \in 1 .. Len(resp[step.req]) : resp[step.req][j]

\* C26: no request is sent more than one response, whatever the order of socket
\* events, inbound frames and call completions.
C26_AtMostOneResponse == \A r \in ReqIds : Len(resp[r]) <= 1

\* C27: the frame-to-thread mapping changes only in the step of a stackTrace
\* request that sends its success response: a stackTrace request that ends with
\* an error response, any other request and any push event leave it as it was.
C27_IndexChangesOnlyOnSuccess ==
    [][_scopeThreadMapping' # _scopeThreadMapping
       => /\ step'.op = "stackTraceResume"
          /\ Len(step'.sent) = 1
          /\ step'.sent[1].success]_vars

\* C28: at most one socket is open at any time; and once a later attach request
\* has been taken, no socket of an earlier attach request is open and
\* dispatching frames.
C28_AtMostOneOpenSocket ==
    /\ Cardinality(OpenSockets) <= 1
    /\ \A s \in OpenSockets : _websocket = <<s>>

====
